---- MODULE Spec2Model ----
(***************************************************************************)
(* Streaming conversation session manager of LoquacityAI.                  *)
(*                                                                         *)
(* The model follows src/components/SearchPage.tsx (the SearchPage         *)
(* component: its React state, the isRequestCancelled ref and the handlers *)
(* handleSendMessage, handleStop, resetChatState, handleNewChat,           *)
(* loadChatFromHistory, ...) and src/services/geminiService.ts (the two    *)
(* provider adapters and handleGeminiError).  Every await of               *)
(* handleSendMessage is a suspension point: the code between two awaits    *)
(* is one action.  React state read through a closure is passed to the     *)
(* handler as a record of captured values; functional updaters             *)
(* (setX(prev => ...)) read the current state.                             *)
(***************************************************************************)
EXTENDS Integers, Sequences, FiniteSets, TLC

(***************************************************************************)
(* Bounds of the model.                                                    *)
(***************************************************************************)
MaxSends == 2
MaxChunks == 1
MaxLoads == 1
MaxGestures == 1

VARIABLES
    isLoading,           \* useState isLoading                      (:63)
    error,               \* useState error                          (:64)
    history,             \* useState history, newest first          (:65)
    activeChat,          \* useState activeChat                     (:67)
    chatMessages,        \* useState chatMessages                   (:68)
    file,                \* useState file (TRUE: a file is pending) (:70)
    relatedQueries,      \* useState relatedQueries                 (:74)
    isRelatedLoading,    \* useState isRelatedLoading               (:75)
    selectedWorkspace,   \* useState selectedWorkspace              (:79)
    isDeepResearchMode,  \* useState isDeepResearchMode             (:84)
    activeModel,         \* useState activeModel                    (:85)
    isRequestCancelled,  \* useRef isRequestCancelled               (:88)
    sends,               \* suspended handleSendMessage invocations
    imageTasks,          \* pending fetchImagesForSources promises
    relatedTasks,        \* pending generateRelatedQueries promises
    timers,              \* pending setTimeout callbacks of handleRelatedQueryClick
    nextId,              \* next fresh crypto.randomUUID()
    sent,                \* number of submissions accepted so far
    loads,               \* number of history entries loaded so far
    gestures,            \* number of settings gestures made so far
    edits,               \* pending delete/update calls of the history store
    summaryTasks,        \* pending updateWorkspaceSummary invocations
    summaries,           \* useState workspaces: the summary of each    (:66)
    sse,                 \* the locals of a callMistral generator
    stopped,             \* history variable: the turns in flight at a stop()
    resetMark            \* history variable: nextId at the last reset; the
                         \* turns and handles below it are of torn-down sessions

\* The state of the program except the pending timers.
progVars == <<isLoading, error, history, activeChat, chatMessages, file,
              relatedQueries, isRelatedLoading, selectedWorkspace,
              isDeepResearchMode, activeModel, isRequestCancelled,
              sends, imageTasks, relatedTasks, nextId, sent, loads>>

vars == <<isLoading, error, history, activeChat, chatMessages, file,
          relatedQueries, isRelatedLoading, selectedWorkspace,
          isDeepResearchMode, activeModel, isRequestCancelled,
          sends, imageTasks, relatedTasks, timers, nextId, sent, loads,
          gestures, edits, summaryTasks, summaries, sse, stopped, resetMark>>

\* The state of the component and of its pending calls.
session == <<isLoading, error, history, activeChat, chatMessages, file,
             relatedQueries, isRelatedLoading, selectedWorkspace,
             isDeepResearchMode, activeModel, isRequestCancelled,
             sends, imageTasks, relatedTasks, timers, nextId, sent, loads,
             gestures, edits, summaryTasks, summaries, stopped, resetMark>>

\* The state that only the history store calls and the workspace-summary
\* regeneration write.
background == <<edits, summaryTasks, summaries, sse>>

(***************************************************************************)
(* Values.                                                                 *)
(***************************************************************************)
NoError == "null"
NoTable == "null"
NoWorkspace == "null"
NoSummary == "null"
NoStream == "none"
NoChat == [kind |-> "none", id |-> 0]

\* A Chat handle: startChat() builds it from the first exchange of a turn
\* ("turn", id of the model message) or of a history entry ("hist").
Handle(kind, id) == [kind |-> kind, id |-> id]

\* Source = {title, uri}
Source(u, t) == [uri |-> u, title |-> t]

\* Citation = {startIndex?, endIndex?, uri, license?}; -1 stands for an
\* absent startIndex.
Citation(s, e, u, l) == [startIndex |-> s, endIndex |-> e, uri |-> u, license |-> l]

\* images of a ChatMessage: null, undefined or a list.
ImagesNull == [state |-> "null", list |-> <<>>]
ImagesUndefined == [state |-> "undefined", list |-> <<>>]
ImagesList(l) == [state |-> "list", list |-> l]

\* One chunk of a provider stream.  hasText, hasSources and hasCitations
\* say whether the field is present; text is a sequence of text tokens
\* (<<>> is the empty string).
Chunk(ht, t, hs, s, hc, c) ==
    [hasText |-> ht, text |-> t, hasSources |-> hs, sources |-> s,
     hasCitations |-> hc, citations |-> c]

TextChunk(t) == Chunk(TRUE, t, FALSE, <<>>, FALSE, <<>>)

\* The chunk a grounded stream delivers in the session: text, a source and
\* a citation.
GroundedChunks ==
    { Chunk(TRUE, <<"b">>, TRUE, <<Source("u1", "T1")>>,
            TRUE, <<Citation(0, 1, "u1", "")>>) }

\* callMistral yields {text} with a non-empty text only.
MistralChunks == { TextChunk(<<"a">>) }

\* What the user types into the search bar.
Drafts == {"q", " "}

\* String.prototype.trim on the drafts of the model.
Trim(q) == IF q = " " THEN "" ELSE q

(***************************************************************************)
(* Provider errors.  A thrown error is a record: kind is what the provider *)
(* meant, form/status/inner describe the message string of the Error       *)
(* object (a JSON document of the Gemini SDK, plain text, or empty) and    *)
(* text names that string.                                                 *)
(***************************************************************************)
RawError(k, f, st, in, t) == [kind |-> k, form |-> f, status |-> st, inner |-> in, text |-> t]

\* Errors of the Gemini SDK (generateContentStream, Chat.sendMessageStream).
GeminiErrors ==
    { RawError("RateLimited", "json", "RESOURCE_EXHAUSTED", "quota text", "json429"),
      RawError("Other", "json", "INTERNAL", "internal text", "json500") }

\* Errors inside callMistral: a non-ok HTTP response (:233-236).
MistralErrors ==
    { RawError("RateLimited", "plain", "", "", "HTTP error! status: 429"),
      RawError("Other", "plain", "", "", "Unauthorized") }

\* reader.onerror of toBase64 rejects with an event that has no message.
FileReadError == RawError("Other", "empty", "", "", "")

FriendlyQuota == "API quota exceeded. You've made too many requests recently."
FriendlyUnexpected == "An unexpected error occurred while communicating with the AI."
QuotaExceededMsg == "t(search.error.quotaExceeded)"
UnexpectedMsg == "t(search.error.unexpected)"

\* handleGeminiError: the message of the Error it returns.
handleGeminiError(e) ==
    IF e.form = "empty" THEN FriendlyUnexpected
    ELSE IF e.form = "json"
         THEN IF e.status = "RESOURCE_EXHAUSTED" THEN FriendlyQuota
              ELSE IF e.inner # "" THEN e.inner
              ELSE e.text
         ELSE e.text

\* The message of the error that reaches the catch of handleSendMessage on
\* each path: performSmartSearch and callMistral rethrow through
\* handleGeminiError, activeChat.sendMessageStream and toBase64 do not.
ThrownMessage(path, e) ==
    IF path \in {"new", "mistral"} THEN handleGeminiError(e) ELSE e.text

\* errorMessage.includes("API quota exceeded")
IncludesQuota(m) == m = FriendlyQuota

\* The catch block of handleSendMessage: the error shown.
ShownError(m) ==
    LET errorMessage == IF m = "" THEN UnexpectedMsg ELSE m
    IN  IF IncludesQuota(errorMessage) THEN QuotaExceededMsg ELSE errorMessage

(***************************************************************************)
(* Source/citation accumulation.  A JavaScript Map is a sequence of        *)
(* entries [k, v] in insertion order; set() of a present key replaces the  *)
(* value in place, set() of a new key appends.                             *)
(***************************************************************************)
KeyIndex(m, k) ==
    IF \E i \in 1..Len(m) : m[i].k = k
    THEN CHOOSE i \in 1..Len(m) : m[i].k = k
    ELSE 0

MapSet(m, k, v) ==
    IF KeyIndex(m, k) = 0
    THEN Append(m, [k |-> k, v |-> v])
    ELSE [m EXCEPT ![KeyIndex(m, k)] = [k |-> k, v |-> v]]

\* Array.from(map.values())
MapValues(m) == [i \in 1..Len(m) |-> m[i].v]

\* `${c.startIndex}-${c.uri}`
IndexString(n) == IF n < 0 THEN "undefined" ELSE ToString(n)
CitationKey(c) == <<IndexString(c.startIndex), "-", c.uri>>

RECURSIVE SetSources(_, _)
SetSources(m, ss) ==
    IF ss = <<>> THEN m
    ELSE SetSources(MapSet(m, Head(ss).uri, Head(ss)), Tail(ss))

RECURSIVE SetCitations(_, _)
SetCitations(m, cs) ==
    IF cs = <<>> THEN m
    ELSE SetCitations(MapSet(m, CitationKey(Head(cs)), Head(cs)), Tail(cs))

\* fullText += chunk.text || ''   (new session, non-grounding backend)
\* fullText += chunk.text         (continuation through the chat handle)
AppendText(path, fullText, c) ==
    IF c.hasText THEN fullText \o c.text
    ELSE IF path = "cont" THEN fullText \o <<"undefined">>
    ELSE fullText

\* A merge that takes absent sources for an empty list.
MergeSourcesClearing(m, c) == IF c.hasSources THEN SetSources(m, c.sources) ELSE <<>>

MergeSources(m, c) == IF c.hasSources THEN SetSources(m, c.sources) ELSE m

MergeCitations(m, c) ==
    IF c.hasCitations /\ c.citations # <<>> THEN SetCitations(m, c.citations) ELSE m

(***************************************************************************)
(* extractAndParseMarkdownTable (utils/markdownParser): a text whose last  *)
(* token is a well-formed fenced table block "TBL" is split into the text  *)
(* field of the block and the table; any other text is returned unchanged. *)
(***************************************************************************)
extractAndParseMarkdownTable(fullText) ==
    IF fullText # <<>> /\ fullText[Len(fullText)] = "TBL"
    THEN [remainingText |-> <<"S">>, table |-> "table"]
    ELSE [remainingText |-> fullText, table |-> NoTable]

(***************************************************************************)
(* Helpers on the visible list and on the task tables.                     *)
(***************************************************************************)
\* prev.filter(msg => msg.id !== id)
RECURSIVE FilterOut(_, _)
FilterOut(msgs, id) ==
    IF msgs = <<>> THEN <<>>
    ELSE IF Head(msgs).id = id THEN FilterOut(Tail(msgs), id)
    ELSE <<Head(msgs)>> \o FilterOut(Tail(msgs), id)

HasMessage(msgs, id) == \E i \in 1..Len(msgs) : msgs[i].id = id

MessageOf(msgs, id) == msgs[CHOOSE i \in 1..Len(msgs) : msgs[i].id = id]

\* A table of tasks is a function from the turn (id of the model message).
Put(tbl, k, v) == [x \in DOMAIN tbl \cup {k} |-> IF x = k THEN v ELSE tbl[x]]
Drop(tbl, k) == [x \in DOMAIN tbl \ {k} |-> tbl[x]]
EmptyTable == [x \in {} |-> 0]


\* The workspaces of the user, as fetchWorkspaces loads them (:124-128).
Workspaces == {"w1"}

\* Remove(q, k): the sequence q without its k-th element.
Remove(q, k) == SubSeq(q, 1, k - 1) \o SubSeq(q, k + 1, Len(q))

(***************************************************************************)
(* Initial state: the component as mounted (:63-88), nothing in flight.    *)
(***************************************************************************)
IdleSession ==
    /\ isLoading = FALSE
    /\ error = NoError
    /\ history = <<>>
    /\ activeChat = NoChat
    /\ chatMessages = <<>>
    /\ file = FALSE
    /\ relatedQueries = <<>>
    /\ isRelatedLoading = FALSE
    /\ selectedWorkspace = NoWorkspace
    /\ isDeepResearchMode = FALSE
    /\ activeModel = "gemini"
    /\ isRequestCancelled = FALSE
    /\ sends = EmptyTable
    /\ imageTasks = EmptyTable
    /\ relatedTasks = EmptyTable
    /\ timers = {}
    /\ nextId = 1
    /\ sent = 0
    /\ loads = 0
    /\ gestures = 0
    /\ edits = <<>>
    /\ summaryTasks = <<>>
    /\ summaries = [w \in Workspaces |-> NoSummary]
    /\ stopped = {}
    /\ resetMark = 1

Init ==
    /\ IdleSession
    /\ sse = NoStream

(***************************************************************************)
(* handleSendMessage, first part (:182-192 and the code up to the first    *)
(* await).  cl holds the values the callback closed over.                  *)
(***************************************************************************)
Closure ==
    [isLoading |-> isLoading, file |-> file, activeModel |-> activeModel,
     chatMessages |-> chatMessages, activeChat |-> activeChat,
     isDeepResearchMode |-> isDeepResearchMode,
     selectedWorkspace |-> selectedWorkspace]

\* The provider path of a turn.
PathOf(model, isNewChat) ==
    IF model = "mistral" THEN "mistral"
    ELSE IF isNewChat THEN "new" ELSE "cont"

\* The guard without its test of isLoading.
RejectsBlankOnly(cl, query) == Trim(query) = "" /\ ~cl.file

\* if (isLoading || (!query.trim() && !file)) return;
Rejects(cl, query) == cl.isLoading \/ (Trim(query) = "" /\ ~cl.file)

\* const isNewChat = activeModel === 'mistral' ? chatMessages.length === 0 : !activeChat;
IsNewChat(cl) ==
    IF cl.activeModel = "mistral" THEN Len(cl.chatMessages) = 0
    ELSE cl.activeChat = NoChat

UserMessage(id, query, cl) ==
    [id |-> id, role |-> "user", content |-> <<query>>, sources |-> <<>>,
     citations |-> <<>>, table |-> NoTable, images |-> ImagesUndefined,
     file |-> cl.file /\ cl.activeModel = "gemini"]

Placeholder(id, cl) ==
    [id |-> id, role |-> "model", content |-> <<>>, sources |-> <<>>,
     citations |-> <<>>, table |-> NoTable,
     images |-> IF IsNewChat(cl) /\ cl.activeModel = "gemini"
                THEN ImagesNull ELSE ImagesUndefined,
     file |-> FALSE]

\* The invocation as it is suspended at its first await.  calls lists, in
\* program order, the calls the invocation made between the end of its
\* stream and its next await (see CallsAtEnd).  fresh is not a
\* variable of the code: it records whether the session had no conversation
\* when the submission was made (no bound handle for the grounded backend,
\* an empty visible list for the non-grounding one).
NewSend(cl, query) ==
    [query |-> query, model |-> cl.activeModel, isNewChat |-> IsNewChat(cl),
     path |-> PathOf(cl.activeModel, IsNewChat(cl)),
     deep |-> cl.isDeepResearchMode, ws |-> cl.selectedWorkspace,
     hasFile |-> cl.file,
     pc |-> IF cl.activeModel = "mistral" THEN "stream"
            ELSE IF cl.file THEN "file"
            ELSE IF IsNewChat(cl) THEN "stream" ELSE "open",
     fullText |-> <<>>, sourcesMap |-> <<>>, citationsMap |-> <<>>,
     n |-> 0, applied |-> <<>>, calls |-> <<>>,
     fresh |-> IF cl.activeModel = "mistral" THEN Len(chatMessages) = 0
               ELSE activeChat = NoChat]

handleSendMessage(cl, query, kind) ==
    IF Rejects(cl, query)
    THEN UNCHANGED <<progVars, stopped, resetMark>>
    ELSE /\ sent < MaxSends
         /\ isRequestCancelled' = FALSE
         /\ isLoading' = TRUE
         /\ error' = NoError
         /\ chatMessages' = chatMessages \o
                <<UserMessage(nextId, query, cl), Placeholder(nextId + 1, cl)>>
         /\ file' = FALSE
         /\ relatedQueries' =
                IF cl.activeModel = "gemini" /\ ~cl.file /\ IsNewChat(cl)
                THEN <<>> ELSE relatedQueries
         /\ sends' = Put(sends, nextId + 1, NewSend(cl, query))
         /\ nextId' = nextId + 2
         /\ sent' = sent + 1
         /\ UNCHANGED <<history, activeChat, isRelatedLoading, selectedWorkspace,
                        isDeepResearchMode, activeModel, imageTasks,
                        relatedTasks, loads, stopped, resetMark>>

\* SearchBar.handleSubmit (part_001:71-76) calling onSearch = handleSendMessage.
SearchBarSubmit(draft) ==
    IF isLoading \/ (Trim(draft) = "" /\ ~file)
    THEN UNCHANGED <<progVars, timers, stopped, resetMark>>
    ELSE /\ handleSendMessage(Closure, Trim(draft), "submit")
         /\ UNCHANGED timers

\* handleRewrite (:245): resubmits the user message that precedes a model
\* message.
handleRewrite(i) ==
    /\ i \in 2..Len(chatMessages)
    /\ chatMessages[i].role = "model"
    /\ chatMessages[i - 1].role = "user"
    /\ handleSendMessage(Closure, chatMessages[i - 1].content[1], "submit")
    /\ UNCHANGED timers

(***************************************************************************)
(* handleSendMessage, the stream loops (:198, :205, :214).                 *)
(***************************************************************************)
ChunksOf(path) == IF path = "mistral" THEN MistralChunks ELSE GroundedChunks

\* The accumulators of the invocation after one chunk.
ApplyChunk(s, c) ==
    [s EXCEPT !.fullText = AppendText(s.path, s.fullText, c),
              !.sourcesMap = IF s.path = "mistral" THEN s.sourcesMap
                             ELSE MergeSources(s.sourcesMap, c),
              !.citationsMap = IF s.path = "mistral" THEN s.citationsMap
                               ELSE MergeCitations(s.citationsMap, c),
              !.n = s.n + 1,
              !.applied = Append(s.applied, c)]

\* The object the setChatMessages updater of a loop writes into the
\* placeholder: the non-grounding loop writes the content only.
ShowChunk(s, msg) ==
    IF s.path = "mistral"
    THEN [msg EXCEPT !.content = s.fullText]
    ELSE [msg EXCEPT !.content = s.fullText,
                     !.sources = MapValues(s.sourcesMap),
                     !.citations = MapValues(s.citationsMap)]

\* A finally block that leaves the loading flag alone.
FinallyKeepsLoading(t) ==
    /\ sends' = Drop(sends, t)
    /\ UNCHANGED isLoading

\* } finally { setIsLoading(false); } : the invocation is over.
Finally(t) ==
    /\ isLoading' = FALSE
    /\ sends' = Drop(sends, t)

\* The provider delivers the next chunk to the loop of turn t.
StreamChunk(t, c) ==
    /\ t \in DOMAIN sends
    /\ sends[t].pc = "stream"
    /\ IF isRequestCancelled
       THEN \* break; then `if (isRequestCancelled.current) return;`
            /\ Finally(t)
            /\ UNCHANGED chatMessages
       ELSE LET s == ApplyChunk(sends[t], c)
            IN  /\ sends' = [sends EXCEPT ![t] = s]
                /\ chatMessages' =
                      [i \in 1..Len(chatMessages) |->
                          IF chatMessages[i].id = t
                          THEN ShowChunk(s, chatMessages[i]) ELSE chatMessages[i]]
                /\ UNCHANGED isLoading
    /\ UNCHANGED <<error, history, activeChat, file, relatedQueries,
                   isRelatedLoading, selectedWorkspace, isDeepResearchMode,
                   activeModel, isRequestCancelled, imageTasks, relatedTasks,
                   timers, nextId, sent, loads, stopped, resetMark>>

\* toBase64(currentFile) resolves (:200); the code runs on to the next await.
FileRead(t) ==
    /\ t \in DOMAIN sends
    /\ sends[t].pc = "file"
    /\ sends' = [sends EXCEPT ![t].pc = IF sends[t].isNewChat THEN "stream" ELSE "open"]
    /\ relatedQueries' = IF sends[t].isNewChat THEN <<>> ELSE relatedQueries
    /\ UNCHANGED <<isLoading, error, history, activeChat, chatMessages, file,
                   isRelatedLoading, selectedWorkspace, isDeepResearchMode,
                   activeModel, isRequestCancelled, imageTasks, relatedTasks,
                   timers, nextId, sent, loads, stopped, resetMark>>

\* await activeChat.sendMessageStream(...) resolves with the stream (:213).
StreamOpen(t) ==
    /\ t \in DOMAIN sends
    /\ sends[t].pc = "open"
    /\ sends' = [sends EXCEPT ![t].pc = "stream"]
    /\ UNCHANGED <<isLoading, error, history, activeChat, chatMessages, file,
                   relatedQueries, isRelatedLoading, selectedWorkspace,
                   isDeepResearchMode, activeModel, isRequestCancelled,
                   imageTasks, relatedTasks, timers, nextId, sent, loads,
                   stopped, resetMark>>

(***************************************************************************)
(* handleSendMessage, the end of the stream (:206-224).                    *)
(***************************************************************************)
\* fetchImagesForSources returns [] before any await when the query is
\* blank or there are no sources (geminiService.ts:472); its then-callback
\* runs as a microtask while isRequestCancelled is still false.
ImagesAtOnce(s) == Trim(s.query) = "" \/ s.sourcesMap = <<>>

\* The placeholder after the commit (:219-220 and the microtask above).
Commit(s, msg) ==
    LET ex == extractAndParseMarkdownTable(s.fullText)
    IN  [msg EXCEPT !.content = ex.remainingText,
                    !.table = ex.table,
                    !.images = IF s.path = "new" /\ ImagesAtOnce(s)
                               THEN ImagesList(<<>>) ELSE msg.images]

\* The calls of the code between the end of the loop and the await of the
\* insert, in program order: fetchImagesForSources (:207),
\* generateRelatedQueries (:208), extractAndParseMarkdownTable (:219), the
\* insert (:222).
CallsAtEnd(s) ==
    (IF s.path = "new" THEN <<"images", "related">> ELSE <<>>)
        \o <<"extract">>
        \o (IF s.isNewChat THEN <<"insert">> ELSE <<>>)

StreamEnd(t) ==
    /\ t \in DOMAIN sends
    /\ sends[t].pc = "stream"
    /\ IF isRequestCancelled
       THEN \* :206 and :218
            /\ Finally(t)
            /\ UNCHANGED <<chatMessages, activeChat, isRelatedLoading,
                           imageTasks, relatedTasks>>
       ELSE LET s == sends[t]
            IN  /\ chatMessages' =
                      [i \in 1..Len(chatMessages) |->
                          IF chatMessages[i].id = t
                          THEN Commit(s, chatMessages[i]) ELSE chatMessages[i]]
                /\ IF s.path = "new"
                   THEN /\ imageTasks' =
                              IF ImagesAtOnce(s) THEN imageTasks
                              ELSE Put(imageTasks, t,
                                       [query |-> s.query,
                                        sources |-> MapValues(s.sourcesMap)])
                        /\ isRelatedLoading' = TRUE
                        /\ relatedTasks' = Put(relatedTasks, t,
                                               [query |-> s.query])
                        /\ activeChat' = Handle("turn", t)
                   ELSE UNCHANGED <<imageTasks, isRelatedLoading, relatedTasks,
                                    activeChat>>
                /\ IF s.isNewChat
                   THEN \* await supabase.from('search_history').insert(...)
                        /\ sends' = [sends EXCEPT ![t].pc = "insert",
                                                  ![t].calls = CallsAtEnd(s)]
                        /\ UNCHANGED isLoading
                   ELSE Finally(t)
    /\ UNCHANGED <<error, history, file, relatedQueries, selectedWorkspace,
                   isDeepResearchMode, activeModel, isRequestCancelled,
                   timers, nextId, sent, loads, stopped, resetMark>>

\* The history record of a turn (:222).  turn is not a column of the
\* table: it names the turn the record was written for.
HistoryRecord(t, s) ==
    [turn |-> t,
     query |-> IF s.query = "" THEN "t(search.fileAnalysis)" ELSE s.query,
     answer |-> s.fullText,
     sources |-> MapValues(s.sourcesMap),
     is_deep_research |-> s.deep,
     workspace_id |-> s.ws]

\* The insert returns: the inserted row, or no data on a store failure.
InsertDone(t, ok) ==
    /\ t \in DOMAIN sends
    /\ sends[t].pc = "insert"
    /\ history' = IF ok THEN <<HistoryRecord(t, sends[t])>> \o history ELSE history
    /\ summaryTasks' =
          \* if (selectedWorkspace) updateWorkspaceSummary(selectedWorkspace.id);
          IF ok /\ sends[t].ws # NoWorkspace
          THEN Append(summaryTasks, sends[t].ws) ELSE summaryTasks
    /\ Finally(t)
    /\ UNCHANGED <<error, activeChat, chatMessages, file, relatedQueries,
                   isRelatedLoading, selectedWorkspace, isDeepResearchMode,
                   activeModel, isRequestCancelled, imageTasks, relatedTasks,
                   timers, nextId, sent, loads, stopped, resetMark>>

(***************************************************************************)
(* handleSendMessage, the catch block (:225-230).                          *)
(***************************************************************************)
\* The errors that can be thrown at the await the invocation is suspended at.
ErrorsAt(s) ==
    IF s.pc = "file" THEN {FileReadError}
    ELSE IF s.path = "mistral" THEN MistralErrors
    ELSE GeminiErrors

\* The message of the Error object the catch block receives.
CaughtMessage(s, e) ==
    IF s.pc = "file" THEN e.text ELSE ThrownMessage(s.path, e)

\* A catch block that leaves the placeholder in the list.
CatchKeepsPlaceholder(msgs, t) == msgs

\* The visible list after the catch block.
CatchMessages(msgs, t) == FilterOut(msgs, t)

StreamFail(t, e) ==
    /\ t \in DOMAIN sends
    /\ sends[t].pc \in {"file", "open", "stream"}
    /\ e \in ErrorsAt(sends[t])
    /\ IF isRequestCancelled
       THEN UNCHANGED <<error, chatMessages>>
       ELSE /\ error' = ShownError(CaughtMessage(sends[t], e))
            /\ chatMessages' = CatchMessages(chatMessages, t)
    /\ Finally(t)
    /\ UNCHANGED <<history, activeChat, file, relatedQueries, isRelatedLoading,
                   selectedWorkspace, isDeepResearchMode, activeModel,
                   isRequestCancelled, imageTasks, relatedTasks, timers,
                   nextId, sent, loads, stopped, resetMark>>

(***************************************************************************)
(* The enrichment callbacks (:207, :208).                                  *)
(***************************************************************************)
Image(src) == [imageUrl |-> "http://img", sourceUrl |-> src, title |-> "i"]

\* How a call of the enrichment services can go: the request or the
\* parsing of its answer fails, the answer is an empty list, or it is a
\* list of results.
EnrichmentOutcomes == {"fail", "none", "some"}

\* fetchImagesForSources keeps every result whose urls start with http
\* (geminiService.ts:536-539); on a failure it returns [] (:541-544), so
\* it never rejects.
fetchImagesForSources(task, outcome) ==
    IF outcome = "some"
    THEN <<Image(task.sources[1].uri), Image("http://elsewhere")>>
    ELSE <<>>

\* What fetchImagesForSources can resolve with.
ImageResults(task) ==
    { fetchImagesForSources(task, o) : o \in EnrichmentOutcomes }

ImagesDone(t, images) ==
    /\ t \in DOMAIN imageTasks
    /\ images \in ImageResults(imageTasks[t])
    /\ imageTasks' = Drop(imageTasks, t)
    /\ chatMessages' =
          IF isRequestCancelled THEN chatMessages
          ELSE [i \in 1..Len(chatMessages) |->
                   IF chatMessages[i].id = t
                   THEN [chatMessages[i] EXCEPT !.images = ImagesList(images)]
                   ELSE chatMessages[i]]
    /\ UNCHANGED <<isLoading, error, history, activeChat, file, relatedQueries,
                   isRelatedLoading, selectedWorkspace, isDeepResearchMode,
                   activeModel, isRequestCancelled, sends, relatedTasks,
                   timers, nextId, sent, loads, stopped, resetMark>>

\* generateRelatedQueries returns [] on a failure (geminiService.ts:458-462),
\* so it never rejects.
generateRelatedQueries(outcome) ==
    IF outcome = "some" THEN <<"rq">> ELSE <<>>

\* What generateRelatedQueries can resolve with.
RelatedResults == { generateRelatedQueries(o) : o \in EnrichmentOutcomes }

RelatedDone(t, queries) ==
    /\ t \in DOMAIN relatedTasks
    /\ queries \in RelatedResults
    /\ relatedTasks' = Drop(relatedTasks, t)
    /\ relatedQueries' = IF isRequestCancelled THEN relatedQueries ELSE queries
    /\ isRelatedLoading' = IF isRequestCancelled THEN isRelatedLoading ELSE FALSE
    /\ UNCHANGED <<isLoading, error, history, activeChat, chatMessages, file,
                   selectedWorkspace, isDeepResearchMode, activeModel,
                   isRequestCancelled, sends, imageTasks, timers, nextId,
                   sent, loads, stopped, resetMark>>

(***************************************************************************)
(* handleStop (:108).  The stop button is rendered while isLoading         *)
(* (part_001:142-150).                                                     *)
(***************************************************************************)
handleStop ==
    /\ isLoading
    /\ isRequestCancelled' = TRUE
    /\ isLoading' = FALSE
    /\ stopped' = stopped \cup DOMAIN sends
    /\ UNCHANGED <<error, history, activeChat, chatMessages, file,
                   relatedQueries, isRelatedLoading, selectedWorkspace,
                   isDeepResearchMode, activeModel, sends, imageTasks,
                   relatedTasks, timers, nextId, sent, loads, resetMark>>

(***************************************************************************)
(* resetChatState (:132-136) and the handlers built on it.                 *)
(***************************************************************************)
resetChatState ==
    /\ isLoading' = FALSE
    /\ error' = NoError
    /\ file' = FALSE
    /\ relatedQueries' = <<>>
    /\ isRelatedLoading' = FALSE
    /\ resetMark' = nextId

handleNewChat ==
    /\ resetChatState
    /\ activeChat' = NoChat
    /\ chatMessages' = <<>>
    /\ selectedWorkspace' = NoWorkspace
    /\ isDeepResearchMode' = FALSE

NewChat ==
    /\ handleNewChat
    /\ UNCHANGED <<history, activeModel, isRequestCancelled, sends, imageTasks,
                   relatedTasks, timers, nextId, sent, loads, stopped>>

NewChatInWorkspace ==
    /\ selectedWorkspace # NoWorkspace
    /\ resetChatState
    /\ activeChat' = NoChat
    /\ chatMessages' = <<>>
    /\ UNCHANGED <<history, selectedWorkspace, isDeepResearchMode, activeModel,
                   isRequestCancelled, sends, imageTasks, relatedTasks, timers,
                   nextId, sent, loads, stopped>>

\* loadChatFromHistory (:233-242)
HistoryMessages(item, id) ==
    LET ex == extractAndParseMarkdownTable(item.answer)
    IN  << [id |-> id, role |-> "user", content |-> <<item.query>>,
            sources |-> <<>>, citations |-> <<>>, table |-> NoTable,
            images |-> ImagesUndefined, file |-> FALSE],
           [id |-> id + 1, role |-> "model", content |-> ex.remainingText,
            sources |-> item.sources, citations |-> <<>>, table |-> ex.table,
            images |-> ImagesUndefined, file |-> FALSE] >>

loadChatFromHistory(i) ==
    /\ i \in 1..Len(history)
    /\ loads < MaxLoads
    /\ resetChatState
    /\ isDeepResearchMode' = history[i].is_deep_research
    /\ activeModel' = "gemini"
    /\ selectedWorkspace' = history[i].workspace_id
    /\ chatMessages' = HistoryMessages(history[i], nextId)
    /\ activeChat' = Handle("hist", nextId + 1)
    /\ nextId' = nextId + 2
    /\ loads' = loads + 1
    /\ UNCHANGED <<history, isRequestCancelled, sends, imageTasks, relatedTasks,
                   timers, sent, stopped>>

\* handleModelChange (:254); the model selector is disabled while isLoading
\* (part_001:107-110).
DeepResearchKept(model, deep) == deep

\* if (model !== 'gemini' && isDeepResearchMode) setIsDeepResearchMode(false);
DeepResearchAfterChange(model, deep) ==
    IF model # "gemini" /\ deep THEN FALSE ELSE deep

handleModelChange(model) ==
    /\ ~isLoading
    /\ activeModel' = model
    /\ IF Len(chatMessages) > 0
       THEN handleNewChat
       ELSE /\ isDeepResearchMode' =
                  DeepResearchAfterChange(model, isDeepResearchMode)
            /\ UNCHANGED <<isLoading, error, file, relatedQueries,
                           isRelatedLoading, resetMark, activeChat,
                           chatMessages, selectedWorkspace>>
    /\ UNCHANGED <<history, isRequestCancelled, sends, imageTasks, relatedTasks,
                   timers, nextId, sent, loads, stopped>>

\* onToggleDeepResearch (:326); disabled while isLoading or for the
\* non-grounding backend (part_001:130-134).
ToggleDeepResearch ==
    /\ ~isLoading
    /\ activeModel = "gemini"
    /\ isDeepResearchMode' = ~isDeepResearchMode
    /\ UNCHANGED <<isLoading, error, history, activeChat, chatMessages, file,
                   relatedQueries, isRelatedLoading, selectedWorkspace,
                   activeModel, isRequestCancelled, sends, imageTasks,
                   relatedTasks, timers, nextId, sent, loads, stopped, resetMark>>

\* handleFileChange (:249); the attachment button is disabled while
\* isLoading or for the non-grounding backend (part_001:120-124).
handleFileChange(tooLarge) ==
    /\ ~isLoading
    /\ activeModel # "mistral"
    /\ IF tooLarge
       THEN /\ error' = "t(search.error.fileTooLarge)"
            /\ UNCHANGED file
       ELSE /\ file' = TRUE
            /\ UNCHANGED error
    /\ UNCHANGED <<isLoading, history, activeChat, chatMessages,
                   relatedQueries, isRelatedLoading, selectedWorkspace,
                   isDeepResearchMode, activeModel, isRequestCancelled, sends,
                   imageTasks, relatedTasks, timers, nextId, sent, loads,
                   stopped, resetMark>>

\* handleRemoveFile (:250); its button is rendered for a pending file and
\* disabled while isLoading (:319-323).
handleRemoveFile ==
    /\ file
    /\ ~isLoading
    /\ file' = FALSE
    /\ UNCHANGED <<isLoading, error, history, activeChat, chatMessages,
                   relatedQueries, isRelatedLoading, selectedWorkspace,
                   isDeepResearchMode, activeModel, isRequestCancelled, sends,
                   imageTasks, relatedTasks, timers, nextId, sent, loads,
                   stopped, resetMark>>

\* handleSelectWorkspace (:260)
handleSelectWorkspace(ws) ==
    /\ ws \in Workspaces
    /\ selectedWorkspace' = ws
    /\ UNCHANGED <<isLoading, error, history, activeChat, chatMessages, file,
                   relatedQueries, isRelatedLoading, isDeepResearchMode,
                   activeModel, isRequestCancelled, sends, imageTasks,
                   relatedTasks, timers, nextId, sent, loads, stopped, resetMark>>

\* handleBackToWorkspaces (:261) and the sidebar navigation (:364)
handleBackToWorkspaces ==
    /\ selectedWorkspace # NoWorkspace
    /\ selectedWorkspace' = NoWorkspace
    /\ UNCHANGED <<isLoading, error, history, activeChat, chatMessages, file,
                   relatedQueries, isRelatedLoading, isDeepResearchMode,
                   activeModel, isRequestCancelled, sends, imageTasks,
                   relatedTasks, timers, nextId, sent, loads, stopped, resetMark>>

\* handleRelatedQueryClick (:253); the related queries are rendered under
\* the condition of :307-310.
RelatedQueriesShown ==
    /\ Len(chatMessages) > 1
    /\ ~isLoading
    /\ activeModel = "gemini"
    /\ activeChat # NoChat
    /\ ~isRelatedLoading
    /\ Len(relatedQueries) > 0

handleRelatedQueryClick(i) ==
    /\ RelatedQueriesShown
    /\ i \in 1..Len(relatedQueries)
    /\ handleNewChat
    /\ timers' = timers \cup {[cl |-> Closure, query |-> relatedQueries[i]]}
    /\ UNCHANGED <<history, activeModel, isRequestCancelled, sends, imageTasks,
                   relatedTasks, nextId, sent, loads, stopped>>

\* The callback of setTimeout(() => handleSendMessage(query), 50) runs: it
\* calls the handleSendMessage of the render in which the click happened.
TimerFire(tm) ==
    /\ tm \in timers
    /\ timers' = timers \ {tm}
    /\ handleSendMessage(tm.cl, tm.query, "timer")

(***************************************************************************)
(* updateWorkspaceSummary (:159-180).                                      *)
(***************************************************************************)
\* How an invocation can go: the select of the chats fails or is empty
\* (:167-170), generateWorkspaceSummary throws (geminiService.ts:609-612),
\* the update of the workspace fails (:174-175), or all three succeed.
SummaryOutcomes == {"noChats", "generateFailed", "updateFailed", "ok"}

NewSummary == "summary"

\* A regeneration that writes its summary whatever the outcome.
SummaryAlwaysWritten(outcome, old) == NewSummary

\* The summary of the workspace after the invocation: setWorkspaces (:176)
\* is reached on success only.
SummaryAfter(outcome, old) == IF outcome = "ok" THEN NewSummary ELSE old

SummaryDone(k, outcome) ==
    /\ k \in 1..Len(summaryTasks)
    /\ outcome \in SummaryOutcomes
    /\ summaryTasks' = Remove(summaryTasks, k)
    /\ summaries' = [summaries EXCEPT ![summaryTasks[k]] =
                        SummaryAfter(outcome, summaries[summaryTasks[k]])]
    /\ UNCHANGED <<isLoading, error, history, activeChat, chatMessages, file,
                   relatedQueries, isRelatedLoading, selectedWorkspace,
                   isDeepResearchMode, activeModel, isRequestCancelled, sends,
                   imageTasks, relatedTasks, timers, nextId, sent, loads,
                   stopped, resetMark, edits, sse>>

(***************************************************************************)
(* The history view: handleConfirmDelete (:247) and handleSaveEdit (:248). *)
(* The turn of a record stands for its id column.                          *)
(***************************************************************************)
\* history.filter(item => item.id !== id)
WithoutRecord(h, id) == SelectSeq(h, LAMBDA r : r.turn # id)

\* history.map(h => h.id === id ? { ...h, query: query.trim() } : h)
Renamed(h, id, query) ==
    [i \in 1..Len(h) |->
        IF h[i].turn = id THEN [h[i] EXCEPT !.query = Trim(query)] ELSE h[i]]

\* What the user types into the rename field.
NewNames == {"n", " "}

handleConfirmDelete(i) ==
    /\ i \in 1..Len(history)
    /\ history' = WithoutRecord(history, history[i].turn)
    /\ edits' = Append(edits, [kind |-> "delete", id |-> history[i].turn,
                               oldHistory |-> history])
    /\ UNCHANGED <<isLoading, error, activeChat, chatMessages, file,
                   relatedQueries, isRelatedLoading, selectedWorkspace,
                   isDeepResearchMode, activeModel, isRequestCancelled, sends,
                   imageTasks, relatedTasks, timers, nextId, sent, loads,
                   stopped, resetMark, summaryTasks, summaries, sse>>

handleSaveEdit(i, query) ==
    /\ i \in 1..Len(history)
    /\ IF Trim(query) = ""
       THEN UNCHANGED <<history, edits>>
       ELSE /\ history' = Renamed(history, history[i].turn, query)
            /\ edits' = Append(edits, [kind |-> "update", id |-> history[i].turn,
                                       oldHistory |-> history])
    /\ UNCHANGED <<isLoading, error, activeChat, chatMessages, file,
                   relatedQueries, isRelatedLoading, selectedWorkspace,
                   isDeepResearchMode, activeModel, isRequestCancelled, sends,
                   imageTasks, relatedTasks, timers, nextId, sent, loads,
                   stopped, resetMark, summaryTasks, summaries, sse>>

\* The message shown when the store call of an edit fails.
EditError(kind) ==
    IF kind = "delete" THEN "t(search.error.failedToDeleteHistory)"
    ELSE "t(search.error.failedToUpdateHistory)"

\* The store answers the call of the k-th pending edit.
EditDone(k, ok) ==
    /\ k \in 1..Len(edits)
    /\ edits' = Remove(edits, k)
    /\ IF ok
       THEN UNCHANGED <<history, error>>
       ELSE /\ history' = edits[k].oldHistory
            /\ error' = EditError(edits[k].kind)
    /\ UNCHANGED <<isLoading, activeChat, chatMessages, file,
                   relatedQueries, isRelatedLoading, selectedWorkspace,
                   isDeepResearchMode, activeModel, isRequestCancelled, sends,
                   imageTasks, relatedTasks, timers, nextId, sent, loads,
                   stopped, resetMark, summaryTasks, summaries, sse>>

(***************************************************************************)
(* The session: every handler and every event of the environment.  A       *)
(* gesture that opens a setting (provider, deep research, attachment,      *)
(* workspace) is counted in gestures.                                      *)
(***************************************************************************)
Gesture(A) ==
    /\ gestures < MaxGestures
    /\ gestures' = gestures + 1
    /\ UNCHANGED background
    /\ A

Next ==
    \/ \E d \in Drafts : SearchBarSubmit(d) /\ UNCHANGED <<gestures, background>>
    \/ \E i \in 1..Len(chatMessages) : handleRewrite(i) /\ UNCHANGED <<gestures, background>>
    \/ \E t \in DOMAIN sends : \E c \in ChunksOf(sends[t].path) :
            sends[t].n < MaxChunks /\ StreamChunk(t, c) /\ UNCHANGED <<gestures, background>>
    \/ \E t \in DOMAIN sends : FileRead(t) /\ UNCHANGED <<gestures, background>>
    \/ \E t \in DOMAIN sends : StreamOpen(t) /\ UNCHANGED <<gestures, background>>
    \/ \E t \in DOMAIN sends : StreamEnd(t) /\ UNCHANGED <<gestures, background>>
    \/ \E t \in DOMAIN sends : \E ok \in BOOLEAN : InsertDone(t, ok) /\ UNCHANGED <<gestures, edits, summaries, sse>>
    \/ \E t \in DOMAIN sends : \E e \in ErrorsAt(sends[t]) :
            StreamFail(t, e) /\ UNCHANGED <<gestures, background>>
    \/ \E t \in DOMAIN imageTasks : \E r \in ImageResults(imageTasks[t]) :
            ImagesDone(t, r) /\ UNCHANGED <<gestures, background>>
    \/ \E t \in DOMAIN relatedTasks : \E r \in RelatedResults :
            RelatedDone(t, r) /\ UNCHANGED <<gestures, background>>
    \/ \E k \in 1..Len(summaryTasks) : \E o \in SummaryOutcomes :
            SummaryDone(k, o) /\ UNCHANGED gestures
    \/ handleStop /\ UNCHANGED <<gestures, background>>
    \/ NewChat /\ UNCHANGED <<gestures, background>>
    \/ NewChatInWorkspace /\ UNCHANGED <<gestures, background>>
    \/ \E i \in 1..Len(history) : loadChatFromHistory(i) /\ UNCHANGED <<gestures, background>>
    \/ \E i \in 1..Len(relatedQueries) : handleRelatedQueryClick(i) /\ UNCHANGED <<gestures, background>>
    \/ \E tm \in timers : TimerFire(tm) /\ UNCHANGED <<gestures, background>>
    \/ handleRemoveFile /\ UNCHANGED <<gestures, background>>
    \/ handleBackToWorkspaces /\ UNCHANGED <<gestures, background>>
    \/ \E m \in {"gemini", "mistral"} : Gesture(handleModelChange(m))
    \/ Gesture(ToggleDeepResearch)
    \/ \E big \in BOOLEAN : Gesture(handleFileChange(big))
    \/ \E ws \in Workspaces : Gesture(handleSelectWorkspace(ws))

Spec == Init /\ [][Next]_vars

(***************************************************************************)
(* The accumulation of one turn, taken alone: a turn is streaming on the   *)
(* new-session path (the state after the first submission), on the         *)
(* continuation path (the state after a first turn that got no chunk,      *)
(* whose insert failed and whose related queries came back empty, a second *)
(* submission and the opening of its stream) or on the non-grounding       *)
(* backend (the state after the provider was changed and the first         *)
(* submission), and the provider delivers any sequence of up to            *)
(* MaxMergeChunks chunks of MergeChunks; callMistral delivers the chunks   *)
(* that carry a text and nothing else.  The stream then ends and the turn  *)
(* is committed.                                                           *)
(***************************************************************************)
MaxMergeChunks == 3

MergeChunks ==
    { Chunk(TRUE, <<"x">>, TRUE, <<Source("a", "T1")>>, FALSE, <<>>),
      Chunk(FALSE, <<>>, TRUE, <<Source("a", "T2")>>, FALSE, <<>>),
      Chunk(TRUE, <<"y">>, TRUE,
            <<Source("a", "T1"), Source("a", "T1"), Source("b", "T1")>>, FALSE, <<>>),
      Chunk(TRUE, <<"z">>, TRUE, <<Source("b", "T2"), Source("a", "T1")>>, FALSE, <<>>),
      TextChunk(<<"w">>),
      TextChunk(<<"v">>),
      Chunk(TRUE, <<"c">>, FALSE, <<>>, TRUE, <<Citation(0, 1, "a", "")>>),
      Chunk(FALSE, <<>>, FALSE, <<>>, TRUE, <<Citation(0, 2, "a", "mit")>>),
      Chunk(TRUE, <<"d">>, FALSE, <<>>,
            TRUE, <<Citation(1, 2, "a", ""), Citation(0, 1, "b", ""),
                    Citation(-1, 1, "a", "")>>) }

\* The chunks the stream of a provider path is made of.
MergeChunksOf(path) ==
    IF path = "mistral"
    THEN {c \in MergeChunks : c.hasText /\ ~c.hasSources /\ ~c.hasCitations}
    ELSE MergeChunks

\* The values handleSendMessage closes over in the initial render.
InitClosure ==
    [isLoading |-> FALSE, file |-> FALSE, activeModel |-> "gemini",
     chatMessages |-> <<>>, activeChat |-> NoChat,
     isDeepResearchMode |-> FALSE, selectedWorkspace |-> NoWorkspace]

MergeInit ==
    \E path \in {"new", "cont", "mistral"} :
        LET first == [NewSend(InitClosure, "q") EXCEPT !.fresh = TRUE]
            mcl == [InitClosure EXCEPT !.activeModel = "mistral"]
            done == <<UserMessage(1, "q", InitClosure),
                      Commit(first, Placeholder(2, InitClosure))>>
            cl == [InitClosure EXCEPT !.chatMessages = done,
                                      !.activeChat = Handle("turn", 2)]
        IN  /\ isLoading = TRUE
            /\ error = NoError
            /\ history = <<>>
            /\ activeChat = IF path = "cont" THEN Handle("turn", 2) ELSE NoChat
            /\ chatMessages =
                  IF path = "new"
                  THEN <<UserMessage(1, "q", InitClosure), Placeholder(2, InitClosure)>>
                  ELSE IF path = "mistral"
                  THEN <<UserMessage(1, "q", mcl), Placeholder(2, mcl)>>
                  ELSE done \o <<UserMessage(3, "q", cl), Placeholder(4, cl)>>
            /\ file = FALSE
            /\ relatedQueries = <<>>
            /\ isRelatedLoading = FALSE
            /\ selectedWorkspace = NoWorkspace
            /\ isDeepResearchMode = FALSE
            /\ activeModel = IF path = "mistral" THEN "mistral" ELSE "gemini"
            /\ isRequestCancelled = FALSE
            /\ sends = IF path = "new" THEN Put(EmptyTable, 2, first)
                       ELSE IF path = "mistral"
                       THEN Put(EmptyTable, 2, [NewSend(mcl, "q") EXCEPT !.fresh = TRUE])
                       ELSE Put(EmptyTable, 4, [NewSend(cl, "q") EXCEPT !.pc = "stream",
                                                                        !.fresh = FALSE])
            /\ imageTasks = EmptyTable
            /\ relatedTasks = EmptyTable
            /\ timers = {}
            /\ nextId = IF path = "cont" THEN 5 ELSE 3
            /\ sent = IF path = "cont" THEN 2 ELSE 1
            /\ loads = 0
            /\ gestures = IF path = "mistral" THEN 1 ELSE 0
            /\ edits = <<>>
            /\ summaryTasks = <<>>
            /\ summaries = [w \in Workspaces |-> NoSummary]
            /\ sse = NoStream
            /\ stopped = {}
            /\ resetMark = 1

MergeNext ==
    \/ \E t \in DOMAIN sends : \E c \in MergeChunksOf(sends[t].path) :
            sends[t].n < MaxMergeChunks /\ StreamChunk(t, c) /\ UNCHANGED <<gestures, background>>
    \/ \E t \in DOMAIN sends : StreamEnd(t) /\ UNCHANGED <<gestures, background>>
    \/ \E t \in DOMAIN sends : \E ok \in BOOLEAN : InsertDone(t, ok) /\ UNCHANGED <<gestures, edits, summaries, sse>>

MergeSpec == MergeInit /\ [][MergeNext]_vars

(***************************************************************************)
(* The settings of the session: SwitchSpec follows the session through     *)
(* several changes of provider and of deep mode, with new chats and        *)
(* history loads between them; streams deliver no chunk and do not fail.   *)
(***************************************************************************)
MaxSwitches == 3

Switch(A) ==
    /\ gestures < MaxSwitches
    /\ gestures' = gestures + 1
    /\ UNCHANGED background
    /\ A

SwitchNext ==
    \/ \E d \in Drafts : SearchBarSubmit(d) /\ UNCHANGED <<gestures, background>>
    \/ \E t \in DOMAIN sends : StreamOpen(t) /\ UNCHANGED <<gestures, background>>
    \/ \E t \in DOMAIN sends : StreamEnd(t) /\ UNCHANGED <<gestures, background>>
    \/ \E t \in DOMAIN sends : \E ok \in BOOLEAN : InsertDone(t, ok) /\ UNCHANGED <<gestures, edits, summaries, sse>>
    \/ NewChat /\ UNCHANGED <<gestures, background>>
    \/ \E i \in 1..Len(history) : loadChatFromHistory(i) /\ UNCHANGED <<gestures, background>>
    \/ \E m \in {"gemini", "mistral"} : Switch(handleModelChange(m))
    \/ Switch(ToggleDeepResearch)

SwitchSpec == Init /\ [][SwitchNext]_vars

(***************************************************************************)
(* Progress: LiveSpec is the session without settings, history loads and   *)
(* related-query clicks, with the assumption that every pending call of    *)
(* the environment settles: an opened stream ends or fails, the insert     *)
(* returns, and the two enrichment promises resolve.  The gestures of the  *)
(* user (submit, stop, New Chat) are under no such assumption.             *)
(***************************************************************************)
TurnIds == 1..(2 * MaxSends)

StreamSettles ==
    \E t \in DOMAIN sends :
        /\ \/ StreamOpen(t)
           \/ StreamEnd(t)
           \/ \E e \in ErrorsAt(sends[t]) : StreamFail(t, e)
        /\ UNCHANGED <<gestures, background>>

InsertSettles ==
    \E t \in DOMAIN sends : \E ok \in BOOLEAN : InsertDone(t, ok) /\ UNCHANGED <<gestures, edits, summaries, sse>>

RelatedSettles ==
    \E t \in DOMAIN relatedTasks : \E r \in RelatedResults :
        RelatedDone(t, r) /\ UNCHANGED <<gestures, background>>

ImagesSettle ==
    \E t \in DOMAIN imageTasks : \E r \in ImageResults(imageTasks[t]) :
        ImagesDone(t, r) /\ UNCHANGED <<gestures, background>>

LiveNext ==
    \/ \E d \in Drafts : SearchBarSubmit(d) /\ UNCHANGED <<gestures, background>>
    \/ \E t \in DOMAIN sends : \E c \in ChunksOf(sends[t].path) :
            sends[t].n < MaxChunks /\ StreamChunk(t, c) /\ UNCHANGED <<gestures, background>>
    \/ StreamSettles
    \/ InsertSettles
    \/ RelatedSettles
    \/ ImagesSettle
    \/ handleStop /\ UNCHANGED <<gestures, background>>
    \/ NewChat /\ UNCHANGED <<gestures, background>>

LiveSpec ==
    /\ Init
    /\ [][LiveNext]_vars
    /\ WF_vars(StreamSettles)
    /\ WF_vars(InsertSettles)
    /\ WF_vars(RelatedSettles)
    /\ WF_vars(ImagesSettle)

(***************************************************************************)
(* The history view: HistorySpec is the session of new chats and           *)
(* submissions whose streams end, together with up to MaxEdits deletes and *)
(* renames of history records, each answered by the store at any later     *)
(* moment with success or failure.                                         *)
(***************************************************************************)
MaxEdits == 2

Edit(A) ==
    /\ gestures < MaxEdits
    /\ gestures' = gestures + 1
    /\ A

HistoryNext ==
    \/ \E d \in Drafts : SearchBarSubmit(d) /\ UNCHANGED <<gestures, background>>
    \/ \E t \in DOMAIN sends : StreamEnd(t) /\ UNCHANGED <<gestures, background>>
    \/ \E t \in DOMAIN sends : \E ok \in BOOLEAN : InsertDone(t, ok) /\ UNCHANGED <<gestures, edits, summaries, sse>>
    \/ NewChat /\ UNCHANGED <<gestures, background>>
    \/ \E i \in 1..Len(history) : Edit(handleConfirmDelete(i))
    \/ \E i \in 1..Len(history) : \E n \in NewNames : Edit(handleSaveEdit(i, n))
    \/ \E k \in 1..Len(edits) : \E ok \in BOOLEAN : EditDone(k, ok) /\ UNCHANGED gestures

HistorySpec == Init /\ [][HistoryNext]_vars

(***************************************************************************)
(* callMistral, the reading of the response body (geminiService.ts:        *)
(* 238-273).  SseSpec takes a response body made of up to MaxSseLines      *)
(* lines of SseLines, each ended by a line feed, and possibly a last line  *)
(* without line feed; the network delivers its bytes in reads of any       *)
(* length.  A text is a sequence of characters, "LF", "CR" and "SP" being  *)
(* line feed, carriage return and space; the character "é" is encoded in   *)
(* two bytes "e1" and "e2", every other character in one.                  *)
(***************************************************************************)
MaxSseLines == 3

Prefix == <<"d", "a", "t", "a", ":", "SP">>
DoneToken == <<"[", "D", "]">>

\* The lines of a body: the characters, what the line means (delta: the
\* content of its delta, done: it is the [DONE] line).
SseLines ==
    { [chars |-> Prefix \o <<"{", "a", "}">>, delta |-> <<"a">>, done |-> FALSE],
      [chars |-> Prefix \o <<"{", "é", "}">>, delta |-> <<"é">>, done |-> FALSE],
      [chars |-> Prefix \o <<"{", "}">>, delta |-> <<>>, done |-> FALSE],
      [chars |-> Prefix \o DoneToken \o <<"CR">>, delta |-> <<>>, done |-> TRUE],
      [chars |-> <<>>, delta |-> <<>>, done |-> FALSE],
      [chars |-> Prefix \o <<"{", "a">>, delta |-> <<>>, done |-> FALSE] }

\* A last line that no line feed ends.
SseTails == { <<>>, Prefix \o <<"{", "a", "}">> }

SseBodies ==
    UNION { [1..n -> SseLines] : n \in 1..MaxSseLines }

\* The UTF-8 bytes of a text.
RECURSIVE Encode(_)
Encode(txt) ==
    IF txt = <<>> THEN <<>>
    ELSE (IF Head(txt) = "é" THEN <<"e1", "e2">> ELSE <<Head(txt)>>)
             \o Encode(Tail(txt))

RECURSIVE TextOf(_)
TextOf(ls) ==
    IF ls = <<>> THEN <<>>
    ELSE Head(ls).chars \o <<"LF">> \o TextOf(Tail(ls))

\* decoder.decode(value, { stream: true }) on the bytes the decoder holds
\* back followed by the bytes of the read: out is the text, carry the
\* bytes of an incomplete character at the end.
RECURSIVE Decode(_)
Decode(bytes) ==
    IF bytes = <<>> THEN [out |-> <<>>, carry |-> <<>>]
    ELSE IF Head(bytes) = "e1"
    THEN IF Len(bytes) = 1 THEN [out |-> <<>>, carry |-> bytes]
         ELSE LET r == Decode(Tail(Tail(bytes)))
              IN  [out |-> <<"é">> \o r.out, carry |-> r.carry]
    ELSE LET r == Decode(Tail(bytes))
         IN  [out |-> <<Head(bytes)>> \o r.out, carry |-> r.carry]

\* buffer.split('\n'): the pieces between the line feeds, the last one
\* being what follows the last line feed.
RECURSIVE SplitLines(_, _)
SplitLines(txt, cur) ==
    IF txt = <<>> THEN <<cur>>
    ELSE IF Head(txt) = "LF" THEN <<cur>> \o SplitLines(Tail(txt), <<>>)
    ELSE SplitLines(Tail(txt), Append(cur, Head(txt)))

\* A buffer that forgets the incomplete line.
LeftoverDropped(lines) == <<>>

\* buffer = lines.pop() || ''
Leftover(lines) == lines[Len(lines)]

\* line.startsWith('data: ')
StartsWithPrefix(line) ==
    Len(line) >= Len(Prefix) /\ SubSeq(line, 1, Len(Prefix)) = Prefix

Blank == {"SP", "CR"}

\* String.prototype.trim, and the white space JSON.parse skips.
RECURSIVE TrimLeft(_)
TrimLeft(txt) ==
    IF txt # <<>> /\ Head(txt) \in Blank THEN TrimLeft(Tail(txt)) ELSE txt

RECURSIVE TrimRight(_)
TrimRight(txt) ==
    IF txt # <<>> /\ txt[Len(txt)] \in Blank
    THEN TrimRight(SubSeq(txt, 1, Len(txt) - 1)) ELSE txt

TrimText(txt) == TrimRight(TrimLeft(txt))

\* JSON.parse(dataStr) and chunk.choices[0]?.delta?.content: "{" and "}"
\* stand for the JSON around the content.
ParseDelta(dataStr) ==
    LET t == TrimText(dataStr)
    IN  IF /\ Len(t) >= 2
           /\ t[1] = "{"
           /\ t[Len(t)] = "}"
           /\ \A i \in 2..(Len(t) - 1) : t[i] \in {"a", "é"}
        THEN [ok |-> TRUE, text |-> SubSeq(t, 2, Len(t) - 1)]
        ELSE [ok |-> FALSE, text |-> <<>>]

\* for (const line of lines) {...}: the texts yielded so far and whether
\* the generator has returned.
RECURSIVE ProcessLines(_, _)
ProcessLines(lines, yielded) ==
    IF lines = <<>> THEN [yielded |-> yielded, returned |-> FALSE]
    ELSE LET line == Head(lines)
             dataStr == SubSeq(line, Len(Prefix) + 1, Len(line))
         IN  IF ~StartsWithPrefix(line)
             THEN ProcessLines(Tail(lines), yielded)
             ELSE IF TrimText(dataStr) = DoneToken
             THEN [yielded |-> yielded, returned |-> TRUE]
             ELSE IF ParseDelta(dataStr).ok /\ ParseDelta(dataStr).text # <<>>
             THEN ProcessLines(Tail(lines), Append(yielded, ParseDelta(dataStr).text))
             ELSE ProcessLines(Tail(lines), yielded)

\* The generator before its first read.  body and bytes are the response;
\* cutInLine and cutInChar record that a read after which the generator
\* went on reading ended inside a line or inside a character.
SseStart(body, tail) ==
    [body |-> body, bytes |-> Encode(TextOf(body) \o tail), pos |-> 0,
     carry |-> <<>>, buffer |-> <<>>, yielded |-> <<>>, state |-> "reading",
     cutInLine |-> FALSE, cutInChar |-> FALSE]

SseInit ==
    /\ IdleSession
    /\ \E body \in SseBodies : \E tail \in SseTails : sse = SseStart(body, tail)

\* reader.read() resolves with the next k bytes of the body.
SseRead(k) ==
    /\ sse.state = "reading"
    /\ k \in 1..(Len(sse.bytes) - sse.pos)
    /\ LET value == SubSeq(sse.bytes, sse.pos + 1, sse.pos + k)
           dec == Decode(sse.carry \o value)
           lines == SplitLines(sse.buffer \o dec.out, <<>>)
           res == ProcessLines(SubSeq(lines, 1, Len(lines) - 1), sse.yielded)
       IN  sse' = [sse EXCEPT
                      !.pos = sse.pos + k,
                      !.carry = dec.carry,
                      !.buffer = Leftover(lines),
                      !.yielded = res.yielded,
                      !.state = IF res.returned THEN "returned" ELSE "reading",
                      !.cutInLine = sse.cutInLine
                                        \/ (~res.returned /\ Leftover(lines) # <<>>),
                      !.cutInChar = sse.cutInChar
                                        \/ (~res.returned /\ dec.carry # <<>>)]
    /\ UNCHANGED session

\* reader.read() resolves with done: the loop is left and the generator
\* ends.
SseDone ==
    /\ sse.state = "reading"
    /\ sse.pos = Len(sse.bytes)
    /\ sse' = [sse EXCEPT !.state = "done"]
    /\ UNCHANGED session

SseNext ==
    \/ \E k \in 1..Len(sse.bytes) : SseRead(k)
    \/ SseDone

SseSpec == SseInit /\ [][SseNext]_vars

(***************************************************************************)
(* Properties of the session (Spec).                                       *)
(***************************************************************************)

\* C1: once stop() was called while a turn was in flight, the visible
\* content, sources and citations of that turn do not change in any later
\* step, as long as the turn is in the visible list.
C1_StoppedTurnFrozen ==
    [][\A t \in stopped :
          (HasMessage(chatMessages, t) /\ HasMessage(chatMessages', t)) =>
              /\ MessageOf(chatMessages', t).content = MessageOf(chatMessages, t).content
              /\ MessageOf(chatMessages', t).sources = MessageOf(chatMessages, t).sources
              /\ MessageOf(chatMessages', t).citations = MessageOf(chatMessages, t).citations
      ]_vars

\* C2: the history holds no record written for a turn that was in flight
\* (streaming or waiting for its insert) when stop() was called.
C2_NoRecordForStoppedTurn ==
    \A i \in 1..Len(history) : history[i].turn \notin stopped

\* C3: at most one suspended invocation is in its stream loop with its
\* turn in the visible list while the cancel flag is clear, that is, at
\* most one stream has its next chunk written into the visible state.
C3_AtMostOnePrimaryStream ==
    ~isRequestCancelled =>
        Cardinality({t \in DOMAIN sends :
                        sends[t].pc = "stream" /\ HasMessage(chatMessages, t)}) <= 1

C5_TornDownHandleNeverBound ==
    activeChat # NoChat => activeChat.id >= resetMark

\* C6: a related-query result or an image result of a turn of a torn-down
\* session changes neither the related queries, nor the related-loading
\* flag, nor the visible list.
C6_StaleEnrichmentDropped ==
    [][( \/ \E t \in DOMAIN relatedTasks : \E r \in RelatedResults :
              RelatedDone(t, r) /\ t < resetMark
         \/ \E t \in DOMAIN imageTasks : \E r \in ImageResults(imageTasks[t]) :
              ImagesDone(t, r) /\ t < resetMark )
       => UNCHANGED <<relatedQueries, isRelatedLoading, chatMessages>>
      ]_vars

\* C7: when the stream (or the read of the attachment) of a turn fails and
\* no stop() was called on that turn, the visible list afterwards is the
\* list before without the placeholder of the turn, every other message
\* being as it was, and the error is set.
C7_FailureRemovesPlaceholder ==
    [][\A t \in DOMAIN sends : \A e \in ErrorsAt(sends[t]) :
          (StreamFail(t, e) /\ t \notin stopped) =>
              /\ chatMessages' = SelectSeq(chatMessages, LAMBDA m : m.id # t)
              /\ ~HasMessage(chatMessages', t)
              /\ error' # NoError
      ]_vars

\* C7, witness: a turn that was never stopped has failed: its user message
\* is shown without a placeholder, under an error of the catch block.
C7_FailedTurnShown ==
    /\ stopped = {}
    /\ Len(chatMessages) = 1
    /\ chatMessages[1].role = "user"
    /\ error \notin {NoError, "t(search.error.fileTooLarge)"}
    /\ ~isLoading

\* C8: on every provider path, when the stream fails and the turn is not
\* cancelled, a rate-limit failure sets the quota-exceeded message and any
\* other provider failure sets the message text of the provider's error.
C8_RateLimitShowsQuotaMessage ==
    [][\A t \in DOMAIN sends : \A e \in ErrorsAt(sends[t]) :
          (StreamFail(t, e) /\ ~isRequestCancelled /\ sends[t].pc # "file") =>
              IF e.kind = "RateLimited"
              THEN error' = QuotaExceededMsg
              ELSE error' \in {e.text, e.inner}
      ]_vars

(***************************************************************************)
(* Properties of the accumulation (MergeSpec).                             *)
(***************************************************************************)

\* C9: after every chunk the visible source list of the streaming turn
\* holds each uri once, the uris shown before keep their positions (new
\* uris are appended), and a chunk that was applied before leaves the list
\* as it is.
C9_SourceListStable ==
    [][\A t \in DOMAIN sends : \A c \in MergeChunks :
          StreamChunk(t, c) =>
              LET before == MessageOf(chatMessages, t).sources
                  after == MessageOf(chatMessages', t).sources
              IN  /\ \A i, j \in 1..Len(after) : after[i].uri = after[j].uri => i = j
                  /\ Len(before) <= Len(after)
                  /\ \A i \in 1..Len(before) : after[i].uri = before[i].uri
                  /\ (\E k \in 1..Len(sends[t].applied) : sends[t].applied[k] = c)
                        => after = before
      ]_vars

\* C10: a chunk never changes an entry of the source list that is already
\* there: the title first seen for a uri stays.
C10_FirstTitleKept ==
    [][\A t \in DOMAIN sends : \A c \in MergeChunks :
          StreamChunk(t, c) =>
              LET before == MessageOf(chatMessages, t).sources
                  after == MessageOf(chatMessages', t).sources
              IN  \A i \in 1..Len(before) :
                      i <= Len(after) /\ after[i] = before[i]
      ]_vars

\* C11: a chunk leaves every citation that is already shown as it is
\* (endIndex and license included), shows no (startIndex, uri) pair twice,
\* and shows every pair it carries: citations that differ in startIndex or
\* in uri are both kept.
C11_DuplicateCitationNoOp ==
    [][\A t \in DOMAIN sends : \A c \in MergeChunksOf(sends[t].path) :
          (StreamChunk(t, c) /\ sends[t].path # "mistral") =>
              LET before == MessageOf(chatMessages, t).citations
                  after == MessageOf(chatMessages', t).citations
              IN  /\ \A i \in 1..Len(before) :
                        i <= Len(after) /\ after[i] = before[i]
                  /\ \A i, j \in 1..Len(after) :
                        (after[i].startIndex = after[j].startIndex
                             /\ after[i].uri = after[j].uri) => i = j
                  /\ c.hasCitations =>
                        \A k \in 1..Len(c.citations) : \E i \in 1..Len(after) :
                            /\ after[i].startIndex = c.citations[k].startIndex
                            /\ after[i].uri = c.citations[k].uri
      ]_vars

\* C12: a chunk without sources leaves the sources shown for the turn as
\* they are, a chunk without citations leaves its citations as they are,
\* and the model message of a turn of the non-grounding backend has no
\* source and no citation before and after every step of its life.
C12_AbsenceIsNoUpdate ==
    [][/\ \A t \in DOMAIN sends : \A c \in MergeChunksOf(sends[t].path) :
            StreamChunk(t, c) =>
                /\ ~c.hasSources =>
                      MessageOf(chatMessages', t).sources = MessageOf(chatMessages, t).sources
                /\ ~c.hasCitations =>
                      MessageOf(chatMessages', t).citations = MessageOf(chatMessages, t).citations
       /\ activeModel = "mistral" =>
            \A i \in 1..Len(chatMessages') :
                chatMessages'[i].sources = <<>> /\ chatMessages'[i].citations = <<>>
      ]_vars

\* C12, witness: a grounded turn shows a source and a citation after a
\* last chunk that carried neither.
C12_AbsentAfterPresent ==
    \E t \in DOMAIN sends :
        /\ sends[t].path # "mistral"
        /\ sends[t].n = 3
        /\ ~sends[t].applied[3].hasSources
        /\ ~sends[t].applied[3].hasCitations
        /\ MessageOf(chatMessages, t).sources # <<>>
        /\ MessageOf(chatMessages, t).citations # <<>>

\* C13: each chunk appends its text delta, and nothing else, to the
\* visible content of the streaming turn, so the content after k chunks is
\* the concatenation of the first k deltas in arrival order.
C13_ContentIsConcatenation ==
    [][\A t \in DOMAIN sends : \A c \in MergeChunksOf(sends[t].path) :
          StreamChunk(t, c) =>
              MessageOf(chatMessages', t).content =
                  MessageOf(chatMessages, t).content \o (IF c.hasText THEN c.text ELSE <<>>)
      ]_vars

\* C14: the insert is invoked when the stream of a turn that began a new
\* session ends without stop(); no turn is inserted twice; and the end of
\* the stream of a turn that continued a session invokes no insert.
C14_NewSessionTurnRecordedOnce ==
    [][/\ \A t \in DOMAIN sends :
            (StreamEnd(t) /\ t \notin stopped) =>
                IF sends[t].fresh
                THEN t \in DOMAIN sends' /\ sends'[t].pc = "insert"
                ELSE t \notin DOMAIN sends'
       /\ \A t \in DOMAIN sends : \A ok \in BOOLEAN :
            InsertDone(t, ok) =>
                /\ \A i \in 1..Len(history) : history[i].turn # t
                /\ ok => (Len(history') = Len(history) + 1 /\ history'[1].turn = t)
      ]_vars

\* C15: a new-session turn whose stream has ended invoked the history
\* insert before it dispatched image discovery and related-query
\* generation.
C15_InsertBeforeEnrichment ==
    \A t \in DOMAIN sends :
        LET log == sends[t].calls
        IN  \A j \in 1..Len(log) :
                log[j] \in {"images", "related"} =>
                    \E i \in 1..(j - 1) : log[i] = "insert"

\* C16: whenever image discovery or related-query generation is dispatched
\* for a turn, the turn began a new session and no stop() was pressed while
\* it was in flight (a failed turn dispatches nothing: StreamFail leaves
\* both task tables alone).
C16_EnrichmentOnlyForCommittedTurn ==
    [][\A t \in DOMAIN sends :
          (\/ t \in DOMAIN relatedTasks' \ DOMAIN relatedTasks
           \/ t \in DOMAIN imageTasks' \ DOMAIN imageTasks) =>
              /\ sends[t].fresh
              /\ t \notin stopped
      ]_vars

\* C18: detaching the pending attachment leaves the in-flight streams and
\* the cancel flag alone, and after it the next submission computes
\* isNewChat = true: for the grounding backend no handle is bound, for the
\* other backend the visible list is empty.
C18_DetachResetsContinuation ==
    [][handleRemoveFile =>
          /\ sends' = sends
          /\ isRequestCancelled' = isRequestCancelled
          /\ IF activeModel' = "mistral" THEN Len(chatMessages') = 0
             ELSE activeChat' = NoChat
      ]_vars

\* C20: when the stream of a turn that was in flight at a stop() fails or
\* ends, the error message is left as it is and the turn, if it is in the
\* visible list, stays there with the content it has.
C20_StoppedTurnNoErrorNoRemoval ==
    [][\A t \in stopped \cap DOMAIN sends :
          (StreamEnd(t) \/ \E e \in ErrorsAt(sends[t]) : StreamFail(t, e)) =>
              /\ error' = error
              /\ HasMessage(chatMessages, t) =>
                    /\ HasMessage(chatMessages', t)
                    /\ MessageOf(chatMessages', t).content =
                           MessageOf(chatMessages, t).content
      ]_vars

\* C17: right after the provider is switched, the next submission would
\* compute isNewChat = true: for the grounding backend no handle is bound,
\* for the other backend the visible list is empty.
C17_SwitchStartsNewSession ==
    [][\A m \in {"gemini", "mistral"} :
          (handleModelChange(m) /\ m # activeModel) =>
              IF activeModel' = "mistral" THEN Len(chatMessages') = 0
              ELSE activeChat' = NoChat
      ]_vars

\* C19: deep mode is off whenever the active provider is the non-grounding
\* backend, and the history record a turn of that backend writes is not
\* marked deep.
C19_NoDeepModeOnNonGrounding ==
    /\ activeModel = "mistral" => ~isDeepResearchMode
    /\ \A t \in DOMAIN sends :
          sends[t].path = "mistral" =>
              ~HistoryRecord(t, sends[t]).is_deep_research

\* C19: a deep turn of the grounding backend was recorded, the provider was
\* then switched, and a turn of the non-grounding backend waits for its
\* insert.
C19_NonGroundingTurnAfterDeepTurn ==
    /\ activeModel = "mistral"
    /\ \E i \in 1..Len(history) : history[i].is_deep_research
    /\ \E t \in DOMAIN sends :
          sends[t].path = "mistral" /\ sends[t].pc = "insert"

\* C25: a chunk that carries no text delta leaves the visible content of
\* the streaming turn as it is, on every provider path.
C25_NoTextChunkKeepsContent ==
    [][\A t \in DOMAIN sends : \A c \in MergeChunksOf(sends[t].path) :
          (StreamChunk(t, c) /\ ~c.hasText) =>
              MessageOf(chatMessages', t).content =
                  MessageOf(chatMessages, t).content
      ]_vars

\* C26: while the invocation of a turn is in flight, the turn was not in
\* flight at a stop() and was submitted after the last reset of the chat,
\* the loading flag is true.
C26_LoadingWhileStreamInFlight ==
    (\E t \in DOMAIN sends : t \notin stopped /\ t >= resetMark) => isLoading

\* C28: every invocation of handleSendMessage that was accepted comes to
\* its end, and the step in which it ends, on whatever exit path, leaves
\* the loading flag false.
C28_EveryExitClearsLoading ==
    /\ [][\A t \in DOMAIN sends : t \notin DOMAIN sends' => ~isLoading']_vars
    /\ \A t \in TurnIds : (t \in DOMAIN sends) ~> (t \notin DOMAIN sends)

\* C28: a turn that was in flight at a stop() has come to its end while the
\* invocation of a later turn is still in flight.
C28_StoppedTurnExited ==
    \E t \in stopped : \E u \in DOMAIN sends :
        t \notin DOMAIN sends /\ t < u /\ ~isLoading

\* C27: once related-query generation is dispatched for a turn, the
\* related-queries loading flag is eventually false.
C27_RelatedLoadingEventuallyFalse ==
    \A t \in TurnIds : (t \in DOMAIN relatedTasks) ~> ~isRelatedLoading

\* C29: the submission that follows the click on a related query is the
\* first turn of a new session: it takes the new-session path (no
\* conversation handle, enrichment at its end) and will write a history
\* record.
C29_RelatedQueryStartsNewSession ==
    [][\A tm \in timers :
          TimerFire(tm) =>
              /\ nextId + 1 \in DOMAIN sends'
              /\ sends'[nextId + 1].path = "new"
              /\ sends'[nextId + 1].isNewChat
      ]_vars

\* C24: when the history insert of a turn fails, the visible list stays as
\* it is, the loading flag is cleared so that the next submission is
\* accepted, and a message is shown to the user.
C24_InsertFailureWarns ==
    [][\A t \in DOMAIN sends :
          InsertDone(t, FALSE) =>
              /\ chatMessages' = chatMessages
              /\ ~isLoading'
              /\ error' # NoError
      ]_vars

\* C22: every image shown on a turn has the uri of one of the sources of
\* that turn as its sourceUrl.
C22_ImagesScopedToSources ==
    \A i \in 1..Len(chatMessages) :
        LET msg == chatMessages[i]
        IN  msg.images.state = "list" =>
                \A j \in 1..Len(msg.images.list) :
                    \E k \in 1..Len(msg.sources) :
                        msg.sources[k].uri = msg.images.list[j].sourceUrl

\* C23: when the store call of a delete or of a rename fails, an error is
\* shown, the record of the call is in the history list as it was when the
\* call was made, and the rest of the list is what it was just before the
\* failure: what other operations did in the meantime is kept.
C23_FailedEditRolledBack ==
    [][\A k \in 1..Len(edits) :
          EditDone(k, FALSE) =>
              LET op == edits[k]
              IN  /\ error' = EditError(op.kind)
                  /\ \A i \in 1..Len(op.oldHistory) :
                        op.oldHistory[i].turn = op.id =>
                            \E j \in 1..Len(history') :
                                history'[j] = op.oldHistory[i]
                  /\ WithoutRecord(history', op.id) = WithoutRecord(history, op.id)
      ]_vars

\* The content, sources, citations and table of every visible message.
CommittedParts(msgs) ==
    [i \in 1..Len(msgs) |->
        <<msgs[i].id, msgs[i].content, msgs[i].sources, msgs[i].citations,
          msgs[i].table>>]

\* C21: the completion of a failed related-query generation, of a failed
\* image discovery or of a failed summary regeneration leaves the error,
\* the content, sources, citations and table of every turn, the workspace
\* summaries and the other pending tasks as they are; and the result of a
\* task that succeeds is applied.
C21_EnrichmentFailureIsSilent ==
    [][/\ \A t \in DOMAIN relatedTasks :
            RelatedDone(t, generateRelatedQueries("fail")) =>
                /\ error' = error
                /\ CommittedParts(chatMessages') = CommittedParts(chatMessages)
                /\ UNCHANGED <<imageTasks, summaryTasks, summaries>>
       /\ \A t \in DOMAIN imageTasks :
            ImagesDone(t, fetchImagesForSources(imageTasks[t], "fail")) =>
                /\ error' = error
                /\ CommittedParts(chatMessages') = CommittedParts(chatMessages)
                /\ UNCHANGED <<relatedTasks, relatedQueries, summaryTasks, summaries>>
       /\ \A k \in 1..Len(summaryTasks) : \A o \in SummaryOutcomes \ {"ok"} :
            SummaryDone(k, o) =>
                /\ error' = error
                /\ CommittedParts(chatMessages') = CommittedParts(chatMessages)
                /\ UNCHANGED <<summaries, relatedTasks, relatedQueries, imageTasks>>
       /\ \A t \in DOMAIN relatedTasks :
            (RelatedDone(t, generateRelatedQueries("some")) /\ ~isRequestCancelled) =>
                relatedQueries' = generateRelatedQueries("some")
       /\ \A t \in DOMAIN imageTasks :
            (/\ ImagesDone(t, fetchImagesForSources(imageTasks[t], "some"))
             /\ ~isRequestCancelled
             /\ HasMessage(chatMessages, t)) =>
                MessageOf(chatMessages', t).images =
                    ImagesList(fetchImagesForSources(imageTasks[t], "some"))
       /\ \A k \in 1..Len(summaryTasks) :
            SummaryDone(k, "ok") => summaries'[summaryTasks[k]] = NewSummary
      ]_vars

\* C21: a turn was recorded in a workspace, every summary regeneration of
\* the workspace failed, and the related queries of the turn were applied
\* all the same, with no error shown.
C21_SummaryFailedRelatedApplied ==
    /\ \E i \in 1..Len(history) :
          /\ history[i].workspace_id # NoWorkspace
          /\ summaries[history[i].workspace_id] = NoSummary
    /\ summaryTasks = <<>>
    /\ relatedTasks = EmptyTable
    /\ relatedQueries = generateRelatedQueries("some")
    /\ error = NoError

\* The texts of a body in the words of the claim: the non-empty delta
\* contents, in order, of the lines that precede the [DONE] line.
RECURSIVE ExpectedYield(_)
ExpectedYield(body) ==
    IF body = <<>> \/ Head(body).done THEN <<>>
    ELSE (IF Head(body).delta # <<>> THEN <<Head(body).delta>> ELSE <<>>)
             \o ExpectedYield(Tail(body))

\* C30: however the body is split into reads, the texts yielded so far are
\* the first of the expected texts, and when the generator has ended or
\* returned they are exactly the expected texts.
C30_YieldIndependentOfSplit ==
    LET exp == ExpectedYield(sse.body)
    IN  /\ Len(sse.yielded) <= Len(exp)
        /\ sse.yielded = SubSeq(exp, 1, Len(sse.yielded))
        /\ sse.state # "reading" => sse.yielded = exp

\* C30: the generator has returned at the [DONE] line after yielding a
\* text, the body goes on after that line, and reads ended inside a line
\* and inside a character.
C30_ReturnedAfterSplitReads ==
    /\ sse.state = "returned"
    /\ sse.yielded # <<>>
    /\ sse.pos < Len(sse.bytes)
    /\ sse.cutInLine
    /\ sse.cutInChar

====
